---- MODULE Spec2Model ----
(***************************************************************************)
(* Call signaling and session orchestration of the ConnectMe client.       *)
(*                                                                         *)
(* One client ("me") is modelled in full: the React state and refs of      *)
(* CallProvider, IncomingCallProvider, useWebRTC and useCallTimer.  Every  *)
(* handler is a function from the client's state to its next state, split  *)
(* at its awaits into one step per continuation.  A continuation keeps the *)
(* values its closure captured when the handler was invoked (currentCall,  *)
(* callDuration, incomingCall of that render); refs and functional state   *)
(* updates read the live value.  Handlers invoked from the UI are those of *)
(* the latest render.  The other party is the environment: it issues the   *)
(* store writes that the same code issues when it runs on the peer's       *)
(* client.                                                                 *)
(***************************************************************************)
EXTENDS Integers, Sequences, FiniteSets, Bags, TLC

\* ---- bounds of the model ------------------------------------------------
MaxOps == 2
MaxRecords == 1
MaxOverlapRecords == 2
MaxCandidates == 1
MaxDur == 1
MaxTimers == 2
MaxElapsed == 15
MaxLeaked == 5
MaxEndCalls == 2
MaxDeclines == 2
MaxLocalCandidates == 2

Me == "me"
Peers == {"bob"}

\* ---- values ---------------------------------------------------------------
\* currentCall === null
NoCall == [peerId |-> "", status |-> "null", isMuted |-> FALSE]

\* a session description (offer or answer), told apart by the party and the
\* connection that created it; NoDescription: the field is not set
NoDescription == [by |-> "", pc |-> 0]
Description(by, pc) == [by |-> by, pc |-> pc]

\* a document id of the calls collection that holds no document yet
NoRecord ==
  [status |-> "absent", callerId |-> "", receiverId |-> "",
   offer |-> NoDescription, answer |-> NoDescription, callerCandidates |-> <<>>,
   receiverCandidates |-> <<>>, duration |-> -1]

\* what one initiateCall invocation leaves behind for the record it created:
\* the record subscription (active; pending = a snapshot waits for delivery),
\* the 60 s timeout, and the closure both callbacks share (peerConnection, and
\* the currentCall / callDuration of the render that invoked initiateCall)
NoSub ==
  [active |-> FALSE, pending |-> FALSE, timer |-> "none",
   pc |-> 0, cc |-> NoCall, dur |-> 0]

\* a suspended async function: op at its await, with what its closure holds
Task(op, at, cc, dur, inc, pc, id, peer) ==
  [op |-> op, at |-> at, cc |-> cc, dur |-> dur, inc |-> inc, pc |-> pc,
   id |-> id, peer |-> peer]

AddTask(T, t) == T (+) SetToBag({t})
DelTask(T, t) == T (-) SetToBag({t})
Moved(T, t, at) == AddTask(DelTask(T, t), [t EXCEPT !.at = at])
NumPending(T, op) ==
  LET ts == {t \in BagToSet(T) : t.op = op}
  IN BagCardinality([t \in ts |-> CopiesIn(t, T)])

\* ---- state ----------------------------------------------------------------
VARIABLES
  currentCall,        \* CallStateContext: useState<CallState | null>
  isInCall,           \* CallStateContext: useState(false)
  callHistory,        \* CallStateContext: useState<CallLog[]>
  incomingCall,       \* IncomingCallContext: id of the surfaced call, 0 = null
  callDuration,       \* useCallTimer: useState(0)
  intervalRef,        \* useCallTimer: an interval is referenced
  leakedIntervals,    \* intervals still running that intervalRef no longer holds
  currentCallDocRef,  \* CallProvider refs (0 = null)
  callTimeoutRef,
  isCallerRef,
  callListenerRef,
  peerConnectionRef,  \* useWebRTC refs (0 = null)
  localStreamRef,
  pcs,                \* every RTCPeerConnection created so far
  streams,            \* every MediaStream obtained so far
  records,            \* the calls collection of the store
  subs,               \* per record: subscription, ring timeout and their closure
  tasks,              \* bag of suspended async functions
  watcherPending,     \* the incoming-calls listener has a snapshot to deliver
  declineTimers,      \* per record: pending 30 s auto-decline timeouts
  bgDeclines,         \* per record: un-awaited declineCall writes in flight
  nStarted,           \* sessions created so far (setCurrentCall({...}))
  nOps,               \* initiateCall, acceptCall, declineCall and toggleMute
                      \* invocations of the user so far
  rejected,           \* initiateCall invocations answered 'Already in a call'
  openSessions,       \* initiateCall / acceptCall invocations that created a
                      \* session and are not over: no endCall has completed
                      \* since, and initiateCall did not give up for want of a
                      \* microphone
  transportFailed,    \* a connection reported failed since the session was
                      \* created
  iceTasks,           \* bag of suspended addIceCandidate calls
  historyPending      \* the call-history listener has a snapshot to deliver

vars ==
  <<currentCall, isInCall, callHistory, incomingCall, callDuration, intervalRef,
    leakedIntervals, currentCallDocRef, callTimeoutRef, isCallerRef,
    callListenerRef, peerConnectionRef, localStreamRef, pcs, streams, records,
    subs, tasks, watcherPending, declineTimers, bgDeclines, nStarted,
    nOps, rejected, openSessions, transportFailed, iceTasks, historyPending>>

\* the state as one value, for the handlers below
State ==
  [currentCall |-> currentCall, isInCall |-> isInCall,
   callHistory |-> callHistory, incomingCall |-> incomingCall,
   callDuration |-> callDuration, intervalRef |-> intervalRef,
   leakedIntervals |-> leakedIntervals,
   currentCallDocRef |-> currentCallDocRef, callTimeoutRef |-> callTimeoutRef,
   isCallerRef |-> isCallerRef, callListenerRef |-> callListenerRef,
   peerConnectionRef |-> peerConnectionRef, localStreamRef |-> localStreamRef,
   pcs |-> pcs, streams |-> streams, records |-> records, subs |-> subs,
   tasks |-> tasks, watcherPending |-> watcherPending,
   declineTimers |-> declineTimers, bgDeclines |-> bgDeclines,
   nStarted |-> nStarted, nOps |-> nOps,
   rejected |-> rejected, openSessions |-> openSessions,
   transportFailed |-> transportFailed, iceTasks |-> iceTasks,
   historyPending |-> historyPending]

\* the document ids the calls collection can hold
RecIds == DOMAIN records

\* the client after construction, with a collection that has room for the
\* documents ids
InitOf(ids) ==
  /\ currentCall = NoCall
  /\ isInCall = FALSE
  /\ callHistory = <<>>
  /\ incomingCall = 0
  /\ callDuration = 0
  /\ intervalRef = FALSE
  /\ leakedIntervals = 0
  /\ currentCallDocRef = 0
  /\ callTimeoutRef = 0
  /\ isCallerRef = FALSE
  /\ callListenerRef = 0
  /\ peerConnectionRef = 0
  /\ localStreamRef = 0
  /\ pcs = <<>>
  /\ streams = <<>>
  /\ records = [id \in ids |-> NoRecord]
  /\ subs = [id \in ids |-> NoSub]
  /\ tasks = EmptyBag
  /\ watcherPending = FALSE
  /\ declineTimers = [id \in ids |-> 0]
  /\ bgDeclines = [id \in ids |-> 0]
  /\ nStarted = 0
  /\ nOps = 0
  /\ rejected = 0
  /\ openSessions = 0
  /\ transportFailed = FALSE
  /\ iceTasks = EmptyBag
  /\ historyPending = FALSE

Init == InitOf(1..MaxRecords)

InitOverlap == InitOf(1..MaxOverlapRecords)

\* ---- the store (CallService over the calls collection) ---------------------
FreeIds(s) == {id \in RecIds : s.records[id].status = "absent"}
\* addDoc returns a fresh document id
NewId(s) == CHOOSE id \in FreeIds(s) : \A j \in FreeIds(s) : id <= j

\* CallService.subscribeToCall: onSnapshot fires again after every write to the
\* document while the listener is attached
Notified(S, id) == [S EXCEPT ![id].pending = S[id].active]

\* CallService.createCall: status=ringing, the offer, empty candidate lists
createCall(s, id, caller, receiver, offer) ==
  [s EXCEPT !.records[id] =
     [status |-> "ringing", callerId |-> caller, receiverId |-> receiver,
      offer |-> offer, answer |-> NoDescription, callerCandidates |-> <<>>,
      receiverCandidates |-> <<>>, duration |-> -1]]

\* CallService.acceptCall: updateDoc {status: 'accepted', answer}
acceptCallWrite_intoOffer(s, id, answer) ==
  [s EXCEPT !.records[id].status = "accepted", !.records[id].offer = answer,
            !.subs = Notified(@, id)]

\* an update that stores the answer and leaves the status as it is
acceptCallWrite_answerOnly(s, id, answer) ==
  [s EXCEPT !.records[id].answer = answer, !.subs = Notified(@, id)]

acceptCallWrite(s, id, answer) ==
  [s EXCEPT !.records[id].status = "accepted", !.records[id].answer = answer,
            !.subs = Notified(@, id)]

\* CallService.declineCall: updateDoc {status: 'declined'}
declineCallWrite(s, id) ==
  [s EXCEPT !.records[id].status = "declined", !.subs = Notified(@, id)]

\* CallService.endCall: updateDoc {status: 'ended', duration}
endCallWrite(s, id, d) ==
  [s EXCEPT !.records[id].status = "ended", !.records[id].duration = d,
            !.subs = Notified(@, id)]

\* CallService.subscribeToIncomingCalls: the documents the query matches
Ringing(R) == {id \in RecIds : R[id].receiverId = Me /\ R[id].status = "ringing"}

\* IncomingCallProvider's effect depends on [currentUser, isInCall, currentCall]:
\* a change of either re-attaches the incoming-calls listener, which delivers
\* the current result again; a change of the result set delivers too.
Rewatched(n) ==
  \/ n.watcherPending
  \/ n.currentCall # currentCall
  \/ n.isInCall # isInCall
  \/ Ringing(n.records) # Ringing(records)

\* the test of line 35 without its conditions on the session
Surfaces_anySession(s, calls) == calls # {}

\* line 35: latestCall && !isInCall && !currentCall
Surfaces(s, calls) == calls # {} /\ ~s.isInCall /\ s.currentCall = NoCall

\* A delivery whose callback fails the test of line 35 does nothing, and whatever
\* changes the outcome of that test causes a new delivery: only a delivery that
\* would surface a call is kept as pending.
Delivers(n) == Rewatched(n) /\ Surfaces(n, Ringing(n.records))

\* CallService.subscribeToCallHistory listens to the whole calls collection:
\* every change of a document gives it a new snapshot to deliver
HistoryChanged(n) == n.historyPending \/ n.records # records

\* What no pending callback can reach any more is dropped: the closure of a
\* subscription that is cancelled and whose timeout is no longer pending.
Collected(S) ==
  [id \in RecIds |->
     IF S[id].active \/ S[id].timer = "pending" THEN S[id]
     ELSE [NoSub EXCEPT !.timer = S[id].timer]]

\* the step from the current state to state n
Becomes(n) ==
  /\ currentCall' = n.currentCall
  /\ isInCall' = n.isInCall
  /\ callHistory' = n.callHistory
  /\ incomingCall' = n.incomingCall
  /\ callDuration' = n.callDuration
  /\ intervalRef' = n.intervalRef
  /\ leakedIntervals' = n.leakedIntervals
  /\ currentCallDocRef' = n.currentCallDocRef
  /\ callTimeoutRef' = n.callTimeoutRef
  /\ isCallerRef' = n.isCallerRef
  /\ callListenerRef' = n.callListenerRef
  /\ peerConnectionRef' = n.peerConnectionRef
  /\ localStreamRef' = n.localStreamRef
  /\ pcs' = n.pcs
  /\ streams' = n.streams
  /\ records' = n.records
  /\ subs' = Collected(n.subs)
  /\ tasks' = n.tasks
  /\ watcherPending' = Delivers(n)
  /\ declineTimers' = n.declineTimers
  /\ bgDeclines' = n.bgDeclines
  /\ nStarted' = n.nStarted
  /\ nOps' = n.nOps
  /\ rejected' = n.rejected
  /\ openSessions' = n.openSessions
  /\ transportFailed' = n.transportFailed
  /\ iceTasks' = n.iceTasks
  /\ historyPending' = HistoryChanged(n)

\* the user invokes a handler from the UI
Invoked(s) == [s EXCEPT !.nOps = @ + 1]

\* ---- useCallTimer ----------------------------------------------------------
\* startTimer: setCallDuration(0); intervalRef.current = setInterval(...).  An
\* interval already referenced is not cleared: it keeps running, unreferenced.
startTimer(s) ==
  [s EXCEPT !.callDuration = 0,
            !.leakedIntervals = @ + (IF s.intervalRef THEN 1 ELSE 0),
            !.intervalRef = TRUE]

\* stopTimer: clearInterval(intervalRef.current); intervalRef.current = null
stopTimer(s) == [s EXCEPT !.intervalRef = FALSE]

\* resetTimer: stopTimer(); setCallDuration(0)
resetTimer(s) == [stopTimer(s) EXCEPT !.callDuration = 0]

\* the interval callback: setCallDuration(prev => prev + 1)
Tick ==
  /\ intervalRef \/ leakedIntervals > 0
  /\ callDuration < MaxDur
  /\ Becomes([State EXCEPT !.callDuration = @ + 1])

\* the intervals that startTimer has set and nothing has cleared
RunningIntervals(s) == (IF s.intervalRef THEN 1 ELSE 0) + s.leakedIntervals

\* the timer's three operations, called in any order by whatever uses the hook
TimerStart ==
  /\ intervalRef => leakedIntervals < MaxLeaked
  /\ Becomes(startTimer(State))

TimerStop ==
  /\ Becomes(stopTimer(State))

TimerReset ==
  /\ Becomes(resetTimer(State))

\* one second passes: the callback of every running 1000 ms interval runs once
Second ==
  /\ RunningIntervals(State) > 0
  /\ callDuration + RunningIntervals(State) <= MaxElapsed
  /\ Becomes([State EXCEPT !.callDuration = @ + RunningIntervals(State)])

\* ---- useWebRTC -------------------------------------------------------------
\* getUserMedia resolved: a live stream whose audio track is enabled;
\* localStreamRef.current = stream
withStream(s) ==
  [s EXCEPT !.streams = Append(@, [live |-> TRUE, enabled |-> TRUE]),
            !.localStreamRef = Len(s.streams) + 1]

\* createPeerConnection(callId, isCaller, onTrack, onConnectionStateChange): the
\* handlers are those of the render that invoked initiateCall / acceptCall, so
\* the endCall they reach sees that render's currentCall (cc) and callDuration
createPeerConnection(s, callId, isCaller, cc, dur) ==
  [s EXCEPT !.pcs = Append(@, [open |-> TRUE, local |-> FALSE, remote |-> FALSE,
                               conn |-> "new", track |-> FALSE, callId |-> callId,
                               isCaller |-> isCaller, cc |-> cc, dur |-> dur,
                               found |-> 0, remoteCandidates |-> {}]),
            !.peerConnectionRef = Len(s.pcs) + 1]

\* RTCPeerConnection.close(): signalingState and connectionState are "closed",
\* and no handler of the connection runs again
ClosedPc ==
  [open |-> FALSE, local |-> FALSE, remote |-> FALSE, conn |-> "closed",
   track |-> FALSE, callId |-> 0, isCaller |-> FALSE, cc |-> NoCall, dur |-> 0,
   found |-> 0, remoteCandidates |-> {}]

\* MediaStreamTrack.stop(): the track has ended and carries nothing, whatever
\* its enabled flag was
StoppedStream == [live |-> FALSE, enabled |-> FALSE]

\* cleanup(): close the referenced connection, stop the referenced stream's
\* tracks, null both refs
cleanup(s) ==
  [s EXCEPT !.pcs = IF s.peerConnectionRef = 0 THEN @
                    ELSE [@ EXCEPT ![s.peerConnectionRef] = ClosedPc],
            !.streams = IF s.localStreamRef = 0 THEN @
                        ELSE [@ EXCEPT ![s.localStreamRef] = StoppedStream],
            !.peerConnectionRef = 0,
            !.localStreamRef = 0]

\* ---- CallProvider.endCall --------------------------------------------------
\* lines 304-307: clearTimeout(callTimeoutRef.current)
clearCallTimeout(s) ==
  [s EXCEPT !.subs = IF s.callTimeoutRef = 0 THEN @
                     ELSE [@ EXCEPT ![s.callTimeoutRef].timer =
                                      IF @ = "pending" THEN "none" ELSE @],
            !.callTimeoutRef = 0]

\* a subscription's unsubscribe()
unsubscribe(s, id) ==
  [s EXCEPT !.subs[id].active = FALSE, !.subs[id].pending = FALSE]

\* lines 311-314: callListenerRef.current()
clearCallListener(s) ==
  [(IF s.callListenerRef = 0 THEN s ELSE unsubscribe(s, s.callListenerRef))
     EXCEPT !.callListenerRef = 0]

\* lines 328-344: the CallLog, built from the closure's currentCall and
\* callDuration and from the live isCallerRef
addToCallHistory(s, cc, dur) ==
  IF cc # NoCall
    THEN [s EXCEPT !.callHistory =
            <<[peerId |-> cc.peerId, outgoing |-> s.isCallerRef,
               duration |-> dur, status |-> "completed"]>> \o @]
    ELSE s

\* lines 327-351: endCall after its await
endCallFinish(s, cc, dur) ==
  [resetTimer(addToCallHistory(s, cc, dur))
     EXCEPT !.isInCall = FALSE, !.currentCall = NoCall,
            !.currentCallDocRef = 0, !.isCallerRef = FALSE,
            !.openSessions = 0, !.transportFailed = FALSE]

\* lines 300-325: endCall invoked from a closure holding (cc, dur).  Up to the
\* await of CallService.endCall everything runs in the same step; with no
\* document referenced there is no await and the rest runs too.
endCall(s, cc, dur) ==
  LET s1 == cleanup(clearCallListener(stopTimer(clearCallTimeout(s))))
  IN IF s1.currentCallDocRef # 0
       THEN [s1 EXCEPT !.tasks = AddTask(@, Task("endCall", "write", cc, dur, 0,
                                                 0, s1.currentCallDocRef, ""))]
       ELSE endCallFinish(s1, cc, dur)

\* ChatPage renders CallInterface, which holds the end and mute buttons, while
\* isInCall
CallInterfaceShown(s) == s.isInCall

\* endCall pressed in the UI: the closure is that of the latest render
EndCall ==
  /\ CallInterfaceShown(State)
  /\ currentCallDocRef # 0 => NumPending(tasks, "endCall") < MaxEndCalls
  /\ Becomes(endCall(State, currentCall, callDuration))

\* lines 319-325: CallService.endCall settled, written or rejected (the catch
\* of line 322 only logs), and endCall resumes
endCallDone(s, t, ok) ==
  LET s0 == [s EXCEPT !.tasks = DelTask(@, t)]
  IN endCallFinish(IF ok THEN endCallWrite(s0, t.id, t.dur) ELSE s0, t.cc, t.dur)

EndCallWrite(t) ==
  /\ t.op = "endCall"
  /\ \E ok \in BOOLEAN : Becomes(endCallDone(State, t, ok))

\* ---- CallProvider.initiateCall ---------------------------------------------
\* the guard of line 120
AlreadyInCall(s) == s.isInCall \/ s.currentCall # NoCall

\* setCurrentCall(prev => prev ? { ...prev, status } : null)
withStatus(s, st) ==
  [s EXCEPT !.currentCall = IF @ # NoCall THEN [@ EXCEPT !.status = st] ELSE NoCall]

\* lines 114-140: the guard ('Already in a call': nothing else happens), then
\* isCallerRef, the new session and the await of requestMicrophoneAccess
initiateCall(s, peer) ==
  IF AlreadyInCall(s)
    THEN [s EXCEPT !.rejected = @ + 1]
    ELSE [s EXCEPT !.isCallerRef = TRUE,
                   !.currentCall = [peerId |-> peer, status |-> "connecting",
                                    isMuted |-> FALSE],
                   !.tasks = AddTask(@, Task("initiateCall", "mic", s.currentCall,
                                             s.callDuration, 0, 0, 0, peer)),
                   !.nStarted = @ + 1,
                   !.openSessions = @ + 1,
                   !.transportFailed = FALSE]

InitiateCall(peer) ==
  /\ nOps < MaxOps
  /\ Becomes(initiateCall(Invoked(State), peer))

\* initiateCallMic without the setCurrentCall(null) of line 143
initiateCallMic_keepsSession(s, t, granted) ==
  IF granted
    THEN LET s1 == createPeerConnection(withStream(s), s.currentCallDocRef,
                                        s.isCallerRef, t.cc, t.dur)
         IN [s1 EXCEPT !.tasks = AddTask(DelTask(@, t),
                          [t EXCEPT !.at = "offer", !.pc = s1.peerConnectionRef])]
    ELSE [s EXCEPT !.tasks = DelTask(@, t),
                   !.openSessions = IF @ > 0 THEN @ - 1 ELSE 0]

\* lines 140-163: requestMicrophoneAccess resolved.  null: the session is
\* dropped.  A stream: it is stored, the connection is created from the live
\* refs, and createOffer is awaited.
initiateCallMic(s, t, granted) ==
  IF granted
    THEN LET s1 == createPeerConnection(withStream(s), s.currentCallDocRef,
                                        s.isCallerRef, t.cc, t.dur)
         IN [s1 EXCEPT !.tasks = AddTask(DelTask(@, t),
                          [t EXCEPT !.at = "offer", !.pc = s1.peerConnectionRef])]
    ELSE [s EXCEPT !.currentCall = NoCall, !.tasks = DelTask(@, t),
                   !.openSessions = IF @ > 0 THEN @ - 1 ELSE 0]

InitiateCallMic(t) ==
  /\ t.op = "initiateCall" /\ t.at = "mic"
  /\ \E granted \in BOOLEAN : Becomes(initiateCallMic(State, t, granted))

\* lines 163-171: createOffer and setLocalDescription settled (one step: nothing
\* the client can observe separates the two awaits).  On a closed connection
\* they reject and the catch of line 225 calls endCall; otherwise
\* CallService.createCall is awaited.
initiateCallOffer(s, t) ==
  LET s0 == [s EXCEPT !.tasks = DelTask(@, t)]
  IN IF s.pcs[t.pc].open
       THEN [s EXCEPT !.pcs[t.pc].local = TRUE, !.tasks = Moved(@, t, "create")]
       ELSE endCall(s0, t.cc, t.dur)

InitiateCallOffer(t) ==
  /\ t.op = "initiateCall" /\ t.at = "offer"
  /\ Becomes(initiateCallOffer(State, t))

\* lines 171-223: the document exists; the refs, the status, the subscription
\* (its first snapshot is pending) and the 60 s timeout
initiateCallCreate(s, t, id) ==
  [withStatus(createCall(s, id, Me, t.peer, Description(Me, t.pc)), "ringing")
     EXCEPT !.currentCallDocRef = id,
            !.subs[id] = [active |-> TRUE, pending |-> TRUE, timer |-> "pending",
                          pc |-> t.pc, cc |-> t.cc, dur |-> t.dur],
            !.callListenerRef = id,
            !.callTimeoutRef = id,
            !.tasks = DelTask(@, t)]

\* lines 171, 225-229: CallService.createCall rejected (the store is
\* unavailable): the catch calls endCall
initiateCallFailed(s, t) ==
  endCall([s EXCEPT !.tasks = DelTask(@, t)], t.cc, t.dur)

\* CallService.createCall settled
InitiateCallCreate(t) ==
  /\ t.op = "initiateCall" /\ t.at = "create"
  /\ \/ /\ FreeIds(State) # {}
        /\ Becomes(initiateCallCreate(State, t, NewId(State)))
     \/ Becomes(initiateCallFailed(State, t))

\* lines 190-212: the subscribeToCall callback of the record's initiateCall
onCallSnapshot(s, id) ==
  LET c == s.subs[id]
      data == s.records[id]
      s0 == [s EXCEPT !.subs[id].pending = FALSE]
  IN CASE data.status = "declined" -> unsubscribe(endCall(s0, c.cc, c.dur), id)
       [] data.status = "accepted" /\ data.answer # NoDescription ->
            [s0 EXCEPT !.tasks = AddTask(@, Task("snapshot", "setRemote", c.cc,
                                                 c.dur, 0, c.pc, id, ""))]
       [] data.status = "ended" -> unsubscribe(endCall(s0, c.cc, c.dur), id)
       [] OTHER -> s0

OnCallSnapshot(id) ==
  /\ subs[id].active /\ subs[id].pending
  /\ Becomes(onCallSnapshot(State, id))

\* RTCPeerConnection.setRemoteDescription(answer) resolves only in
\* have-local-offer on an open connection; anywhere else it rejects
CanApplyAnswer(pc) == pc.open /\ pc.local /\ ~pc.remote

\* lines 199-207: setRemoteDescription(answer) settled.  Resolved: startTimer
\* and status connected.  Rejected: the catch calls endCall.
onCallSnapshotAnswer(s, t) ==
  LET s0 == [s EXCEPT !.tasks = DelTask(@, t)]
  IN IF CanApplyAnswer(s.pcs[t.pc])
       THEN withStatus(startTimer([s0 EXCEPT !.pcs[t.pc].remote = TRUE]),
                       "connected")
       ELSE endCall(s0, t.cc, t.dur)

OnCallSnapshotAnswer(t) ==
  /\ t.op = "snapshot"
  /\ Becomes(onCallSnapshotAnswer(State, t))

\* line 218: the condition of the 60 s timeout, on what its closure holds: the
\* live ref, and the currentCall of the render that invoked initiateCall
RingTimeoutApplies(s, id, cc) == s.currentCallDocRef = id /\ cc.status = "ringing"

\* lines 217-223: the 60 s timeout fires
onRingTimeout(s, id) ==
  LET c == s.subs[id]
      s0 == [s EXCEPT !.subs[id].timer = "fired"]
  IN IF RingTimeoutApplies(s, id, c.cc)
       THEN unsubscribe(endCall(s0, c.cc, c.dur), id)
       ELSE s0

OnRingTimeout(id) ==
  /\ subs[id].timer = "pending"
  /\ Becomes(onRingTimeout(State, id))

\* ---- CallProvider.declineCall ----------------------------------------------
\* lines 288-292: declineCall of a render whose incomingCall is inc: nothing if
\* null, else CallService.declineCall is issued and awaited
declineCall(s, inc) ==
  IF inc = 0 THEN s
  ELSE [s EXCEPT !.tasks = AddTask(@, Task("declineCall", "write", NoCall, 0, inc,
                                           0, 0, ""))]

\* the status=declined writes for call id that are issued and not yet settled
DeclinesInFlight(s, id) ==
  LET ts == {t \in BagToSet(s.tasks) : t.op = "declineCall" /\ t.inc = id}
  IN s.bgDeclines[id] + BagCardinality([t \in ts |-> CopiesIn(t, s.tasks)])

\* CallNotification, which holds the accept and decline buttons, renders
\* nothing while incomingCall is null
CallNotificationShown(s) == s.incomingCall # 0

\* declineCall pressed in the UI
DeclineCall ==
  /\ nOps < MaxOps
  /\ CallNotificationShown(State)
  /\ DeclinesInFlight(State, incomingCall) < MaxDeclines
  /\ Becomes(declineCall(Invoked(State), incomingCall))

\* lines 292-297: CallService.declineCall settled.  Written:
\* setIncomingCall(null).  Rejected: the catch only logs.
declineCallDone(s, t, ok) ==
  LET s0 == [s EXCEPT !.tasks = DelTask(@, t)]
  IN IF ok THEN [declineCallWrite(s0, t.inc) EXCEPT !.incomingCall = 0] ELSE s0

DeclineCallWrite(t) ==
  /\ t.op = "declineCall"
  /\ \E ok \in BOOLEAN : Becomes(declineCallDone(State, t, ok))

\* ---- CallProvider.acceptCall -----------------------------------------------
\* the guard of line 233 (currentUser is set throughout)
AcceptRefused(s) == s.incomingCall = 0

\* lines 232-248: the guard, then isCallerRef, the new session and the await of
\* requestMicrophoneAccess
acceptCall(s) ==
  IF AcceptRefused(s)
    THEN s
    ELSE [s EXCEPT !.isCallerRef = FALSE,
                   !.currentCall = [peerId |-> s.records[s.incomingCall].callerId,
                                    status |-> "connecting", isMuted |-> FALSE],
                   !.tasks = AddTask(@, Task("acceptCall", "mic", s.currentCall,
                                             s.callDuration, s.incomingCall, 0, 0,
                                             "")),
                   !.nStarted = @ + 1,
                   !.openSessions = @ + 1,
                   !.transportFailed = FALSE]

AcceptCall ==
  /\ nOps < MaxOps
  /\ CallNotificationShown(State)
  /\ Becomes(acceptCall(Invoked(State)))

\* lines 248-269: requestMicrophoneAccess resolved.  null: declineCall().  A
\* stream: it is stored, the connection is created for the surfaced call, and
\* setRemoteDescription(offer) is awaited.
acceptCallMic(s, t, granted) ==
  LET s0 == [s EXCEPT !.tasks = DelTask(@, t)]
  IN IF granted
       THEN LET s1 == createPeerConnection(withStream(s), t.inc, s.isCallerRef,
                                           t.cc, t.dur)
            IN [s1 EXCEPT !.tasks = AddTask(DelTask(@, t),
                            [t EXCEPT !.at = "answer", !.pc = s1.peerConnectionRef])]
       ELSE declineCall(s0, t.inc)

AcceptCallMic(t) ==
  /\ t.op = "acceptCall" /\ t.at = "mic"
  /\ \E granted \in BOOLEAN : Becomes(acceptCallMic(State, t, granted))

\* lines 269-274: setRemoteDescription(offer), createAnswer and
\* setLocalDescription settled (one step: nothing the client can observe
\* separates the three awaits).  On a closed connection they reject and the
\* catch of line 281 calls declineCall; otherwise CallService.acceptCall is
\* awaited.
acceptCallAnswer(s, t) ==
  LET s0 == [s EXCEPT !.tasks = DelTask(@, t)]
  IN IF s.pcs[t.pc].open
       THEN [s EXCEPT !.pcs[t.pc].remote = TRUE, !.pcs[t.pc].local = TRUE,
                      !.tasks = Moved(@, t, "write")]
       ELSE declineCall(s0, t.inc)

AcceptCallAnswer(t) ==
  /\ t.op = "acceptCall" /\ t.at = "answer"
  /\ Becomes(acceptCallAnswer(State, t))

\* lines 274-285: CallService.acceptCall settled.  Written: the document ref,
\* the surface cleared, startTimer.  Rejected (the store is unavailable): the
\* catch of line 281 calls declineCall.
acceptCallDone(s, t, ok) ==
  LET s0 == [s EXCEPT !.tasks = DelTask(@, t)]
  IN IF ok
       THEN startTimer([acceptCallWrite(s0, t.inc, Description(Me, t.pc))
                          EXCEPT !.currentCallDocRef = t.inc, !.incomingCall = 0])
       ELSE declineCall(s0, t.inc)

AcceptCallWrite(t) ==
  /\ t.op = "acceptCall" /\ t.at = "write"
  /\ \E ok \in BOOLEAN : Becomes(acceptCallDone(State, t, ok))

\* ---- CallProvider.toggleMute -----------------------------------------------
\* toggleMute without the test of line 357 around setCurrentCall
toggleMute_anyState(s) ==
  [s EXCEPT !.streams = IF s.localStreamRef # 0
                          THEN [@ EXCEPT ![s.localStreamRef].enabled = ~@]
                          ELSE @,
            !.currentCall = IF @ # NoCall THEN [@ EXCEPT !.isMuted = ~@]
                            ELSE NoCall]

\* lines 356-370: with a stream referenced, its audio tracks are flipped and
\* setCurrentCall(prev => prev ? { ...prev, isMuted: !prev.isMuted } : null);
\* without one nothing happens
toggleMute(s) ==
  IF s.localStreamRef # 0
    THEN [s EXCEPT !.streams[s.localStreamRef].enabled = ~@,
                   !.currentCall = IF @ # NoCall THEN [@ EXCEPT !.isMuted = ~@]
                                   ELSE NoCall]
    ELSE s

ToggleMute ==
  /\ nOps < MaxOps
  /\ CallInterfaceShown(State)
  /\ Becomes(toggleMute(Invoked(State)))

\* the mute button pressed, not counted among the operations of the user:
\* pressing it again and again only flips the same two flags
PressMute ==
  /\ CallInterfaceShown(State)
  /\ Becomes(toggleMute(State))

\* ---- IncomingCallProvider --------------------------------------------------
\* calls[0] of the query ordered by timestamp desc: the newest ringing call
LatestCall(calls) == CHOOSE id \in calls : \A j \in calls : j <= id

\* lines 32-59: the subscribeToIncomingCalls callback
onIncomingCalls(s) ==
  LET calls == Ringing(s.records)
      s0 == [s EXCEPT !.watcherPending = FALSE]
  IN IF Surfaces(s, calls)
       THEN [s0 EXCEPT !.incomingCall = LatestCall(calls),
                       !.declineTimers[LatestCall(calls)] = @ + 1]
       ELSE s0

OnIncomingCalls ==
  /\ watcherPending
  /\ \A id \in RecIds : onIncomingCalls(State).declineTimers[id] <= MaxTimers
  /\ Becomes(onIncomingCalls(State))

\* the test of line 51 without the comparison of the ids
AutoDeclineApplies_anyCall(s, id) == s.incomingCall # 0

\* line 51: current?.id === latestCall.id
AutoDeclineApplies(s, id) == s.incomingCall = id

\* lines 49-57: a 30 s timeout set for call id fires: if that call is still the
\* surfaced one, CallService.declineCall is issued (not awaited) and the surface
\* is cleared
onAutoDecline(s, id) ==
  LET s0 == [s EXCEPT !.declineTimers[id] = @ - 1]
  IN IF AutoDeclineApplies(s, id)
       THEN [s0 EXCEPT !.incomingCall = 0, !.bgDeclines[id] = @ + 1]
       ELSE s0

OnAutoDecline(id) ==
  /\ declineTimers[id] > 0
  /\ AutoDeclineApplies(State, id) => DeclinesInFlight(State, id) < MaxDeclines
  /\ Becomes(onAutoDecline(State, id))

\* the write issued by a timeout reaches the store
AutoDeclineWrite(id) ==
  /\ bgDeclines[id] > 0
  /\ Becomes(declineCallWrite([State EXCEPT !.bgDeclines[id] = @ - 1], id))

\* callService.ts lines 82-85: the write issued by a timeout is rejected;
\* declineCall rethrows into a promise nobody awaits, and nothing changes
AutoDeclineFails(id) ==
  /\ bgDeclines[id] > 0
  /\ Becomes([State EXCEPT !.bgDeclines[id] = @ - 1])

\* ---- the call-history listener ----------------------------------------------
\* what the history snapshot makes of a document: the CallData cast to CallLog
HistoryEntry(rec) ==
  [peerId |-> IF rec.callerId = Me THEN rec.receiverId ELSE rec.callerId,
   outgoing |-> rec.callerId = Me,
   duration |-> rec.duration, status |-> rec.status]

\* subscribeToCallHistory's result: the documents with me as caller or
\* receiver, newest first
StoreHistory(R) ==
  LET hist[i \in 0..Len(R)] ==
        IF i = 0 THEN <<>>
        ELSE (IF R[i].status # "absent" /\ Me \in {R[i].callerId, R[i].receiverId}
                THEN <<HistoryEntry(R[i])>> ELSE <<>>) \o hist[i - 1]
  IN hist[Len(R)]

\* CallContext.tsx lines 376-378: setCallHistory(history)
onCallHistory(s) ==
  [s EXCEPT !.callHistory = StoreHistory(s.records), !.historyPending = FALSE]

OnCallHistory ==
  /\ historyPending
  /\ Becomes(onCallHistory(State))

\* ---- handleTrackReceived ----------------------------------------------------
\* lines 76-90, for connection p: the remote stream is handed to the audio
\* element and, once play() has resolved, the status is connected and isInCall
\* is set
handleTrackReceived(s, p) ==
  [withStatus([s EXCEPT !.pcs[p].track = TRUE], "connected")
     EXCEPT !.isInCall = TRUE]

\* the remote track of p arrives, which the remote description announces, and
\* play() resolves (a play() that rejects leaves everything as it is)
OnTrack(p) ==
  /\ pcs[p].open /\ pcs[p].remote /\ ~pcs[p].track
  /\ Becomes(handleTrackReceived(State, p))

\* ---- handleConnectionStateChange -------------------------------------------
\* the handler with a 'disconnected' case that ends the call as 'failed' does
handleConnectionStateChange_endsOnDisconnect(s, p, state) ==
  LET s0 == [s EXCEPT !.pcs[p].conn = state,
                      !.transportFailed = @ \/ state = "failed"]
  IN CASE state = "connected" ->
            [withStatus(s0, "connected") EXCEPT !.isInCall = TRUE]
       [] state \in {"failed", "disconnected"} ->
            endCall(s0, s.pcs[p].cc, s.pcs[p].dur)
       [] OTHER -> s0

\* lines 92-112, for connection p whose handlers hold (cc, dur)
handleConnectionStateChange(s, p, state) ==
  LET s0 == [s EXCEPT !.pcs[p].conn = state,
                      !.transportFailed = @ \/ state = "failed"]
  IN CASE state = "connected" ->
            [withStatus(s0, "connected") EXCEPT !.isInCall = TRUE]
       [] state = "failed" -> endCall(s0, s.pcs[p].cc, s.pcs[p].dur)
       [] OTHER -> s0

\* the transport of p reports connected (both descriptions are set), for the
\* first time or again after an interruption
OnConnected(p) ==
  /\ pcs[p].open /\ pcs[p].conn \in {"new", "disconnected"}
  /\ pcs[p].local /\ pcs[p].remote
  /\ Becomes(handleConnectionStateChange(State, p, "connected"))

\* the transport of p, which was connected, reports disconnected: its path is
\* interrupted and may come back
OnDisconnected(p) ==
  /\ pcs[p].open /\ pcs[p].conn = "connected"
  /\ Becomes(handleConnectionStateChange(State, p, "disconnected"))

\* the transport of p reports failed: connectivity checks, which start once both
\* descriptions are set, found no path, or an established path was lost
OnFailed(p) ==
  /\ pcs[p].open /\ pcs[p].conn # "failed" /\ pcs[p].local /\ pcs[p].remote
  /\ Becomes(handleConnectionStateChange(State, p, "failed"))

\* ---- connectivity candidates ------------------------------------------------
\* the field addIceCandidate writes (line 201)
candidateField(isCallerCandidate) ==
  IF isCallerCandidate THEN "callerCandidates" ELSE "receiverCandidates"

\* useWebRTC.addIceCandidate, lines 194-204: the query for the document is
\* issued and awaited
addIceCandidate(s, callId, candidate, isCallerCandidate) ==
  [s EXCEPT !.iceTasks = AddTask(@, [at |-> "read", callId |-> callId,
                                     field |-> candidateField(isCallerCandidate),
                                     existing |-> <<>>,
                                     candidate |-> candidate])]

\* lines 164-168: onicecandidate of connection p with its k-th candidate; the
\* callId and the role are those createPeerConnection was called with
onIceCandidate(s, p) ==
  LET k == s.pcs[p].found + 1
      s0 == [s EXCEPT !.pcs[p].found = k]
  IN IF s.pcs[p].callId # 0
       THEN addIceCandidate(s0, s.pcs[p].callId, <<p, k>>, s.pcs[p].isCaller)
       ELSE s0

\* connection p discovers a candidate: gathering starts with
\* setLocalDescription
OnIceCandidate(p) ==
  /\ pcs[p].open /\ pcs[p].local
  /\ pcs[p].found < MaxLocalCandidates
  /\ Becomes(onIceCandidate(State, p))

\* lines 204-210: getDocs answered.  No document: nothing more.  Otherwise
\* updateDoc with [...existingCandidates, candidate] is issued and awaited.
addIceCandidateRead(s, t) ==
  IF s.records[t.callId].status = "absent"
    THEN [s EXCEPT !.iceTasks = DelTask(@, t)]
    ELSE [s EXCEPT !.iceTasks =
            AddTask(DelTask(@, t),
                    [t EXCEPT !.at = "write",
                              !.existing = s.records[t.callId][t.field]])]

AddIceCandidateRead(t) ==
  /\ t.at = "read"
  /\ Becomes(addIceCandidateRead(State, t))

\* lines 210-212: the updateDoc reaches the store
addIceCandidateWrite(s, t) ==
  [s EXCEPT !.records[t.callId][t.field] = Append(t.existing, t.candidate),
            !.subs = Notified(@, t.callId),
            !.iceTasks = DelTask(@, t)]

AddIceCandidateWrite(t) ==
  /\ t.at = "write"
  /\ Becomes(addIceCandidateWrite(State, t))

\* ---- the peer's client ------------------------------------------------------
\* the peer's initiateCall reaches CallService.createCall
RemoteCreateCall(peer) ==
  /\ FreeIds(State) # {}
  /\ Becomes(createCall(State, NewId(State), peer, Me, Description(peer, 0)))

\* the peer's acceptCall reaches CallService.acceptCall for a call of mine that
\* rings there
RemoteAccept(id) ==
  /\ records[id].callerId = Me /\ records[id].status = "ringing"
  /\ Becomes(acceptCallWrite(State, id, Description(records[id].receiverId, 0)))

\* the peer's declineCall (or its 30 s timeout) reaches CallService.declineCall
RemoteDecline(id) ==
  /\ records[id].callerId = Me /\ records[id].status = "ringing"
  /\ Becomes(declineCallWrite(State, id))

\* the peer's addIceCandidate appends to receiverCandidates of a call of mine
\* that it is accepting or has accepted
RemoteAddIceCandidate(id) ==
  /\ records[id].callerId = Me /\ records[id].status \in {"ringing", "accepted"}
  /\ Len(records[id].receiverCandidates) < MaxCandidates
  /\ Becomes([State EXCEPT !.records[id].receiverCandidates =
                             Append(@, <<0, Len(@) + 1>>),
                           !.subs = Notified(@, id)])

\* the peer's endCall reaches CallService.endCall: as the caller of a call to me
\* at any time, as the receiver of a call of mine once it has accepted it
RemoteEnd(id, d) ==
  /\ \/ records[id].receiverId = Me /\ records[id].status # "ended"
     \/ records[id].callerId = Me /\ records[id].status = "accepted"
  /\ Becomes(endCallWrite(State, id, d))

\* ---- properties -------------------------------------------------------------
\* C1: in every reachable state in which a call is in progress (an initiateCall
\* or acceptCall has started, no endCall has completed since, the call possibly
\* suspended at an await), initiateCall does nothing but answer 'Already in a
\* call': no record, connection, stream or continuation is created and the
\* session, the role and the record id stay as they are.
C1_RejectedWhileInProgress ==
  openSessions > 0 =>
    \A peer \in Peers :
      initiateCall(State, peer) = [State EXCEPT !.rejected = @ + 1]

\* C2: acceptCall is refused whenever a session exists: every acceptCall that
\* runs was invoked in a render whose currentCall was null.
C2_AcceptOnlyWhenIdle ==
  \A t \in BagToSet(tasks) : t.op = "acceptCall" => t.cc = NoCall

OpenPcs == {p \in DOMAIN pcs : pcs[p].open}
LiveStreams == {i \in DOMAIN streams : streams[i].live}

\* C3: at most one peer connection is open and at most one microphone stream is
\* live, and both are the ones the refs hold, so that cleanup can close them.
C3_SingleTransport ==
  /\ Cardinality(OpenPcs) <= 1
  /\ Cardinality(LiveStreams) <= 1
  /\ OpenPcs \subseteq {peerConnectionRef}
  /\ LiveStreams \subseteq {localStreamRef}

Backward(from, to) ==
  \/ from = "ended" /\ to \in {"accepted", "declined"}
  \/ from = "declined" /\ to = "accepted"
  \/ from = "accepted" /\ to = "declined"

\* C4: no step changes the stored status of a record from ended to accepted or
\* declined, from declined to accepted, or from accepted to declined.
C4_StatusForward ==
  [][\A id \in RecIds : ~Backward(records[id].status, records'[id].status)]_vars

\* C5: once the answer is applied and the session is connected, a further
\* snapshot with status=accepted changes nothing: the connection stays open,
\* the session stays as it is and the timer is neither stopped nor restarted.
C5_RepeatedSnapshotHarmless ==
  [][\A t \in BagToSet(tasks) :
       (/\ t.op = "snapshot"
        /\ CopiesIn(t, tasks') < CopiesIn(t, tasks)
        /\ pcs[t.pc].open /\ pcs[t.pc].remote
        /\ currentCall.status = "connected")
       => /\ pcs'[t.pc].open
          /\ currentCall' = currentCall
          /\ intervalRef' = intervalRef
          /\ leakedIntervals' = leakedIntervals
          /\ NumPending(tasks', "endCall") = NumPending(tasks, "endCall")]_vars

\* C6: when the 60 s timeout of an outgoing call fires while the call is still
\* ringing and no endCall is under way, endCall starts: its write of
\* status=ended for the record is issued.
C6_RingTimeoutEndsCall ==
  [][\A id \in RecIds :
       (/\ subs[id].timer = "pending" /\ subs'[id].timer = "fired"
        /\ currentCallDocRef = id
        /\ currentCall.status = "ringing"
        /\ NumPending(tasks, "endCall") = 0)
       => \E t \in BagToSet(tasks') : t.op = "endCall" /\ t.id = id]_vars

\* C7: for every surfaced call at most one write of status=declined is issued:
\* never are two of them in flight.
C7_DeclinedAtMostOnce ==
  \A id \in RecIds : DeclinesInFlight(State, id) <= 1

\* C8: a step in which initiateCall resumes from requestMicrophoneAccess without
\* a stream creates no record, no connection, no subscription and no timeout,
\* leaves no continuation of that initiateCall behind, and ends with currentCall
\* null.
C8_MicDeniedLeavesNothing ==
  [][\A t \in BagToSet(tasks) :
       (/\ t.op = "initiateCall" /\ t.at = "mic"
        /\ CopiesIn(t, tasks') < CopiesIn(t, tasks)
        /\ Len(streams') = Len(streams))
       => /\ records' = records
          /\ pcs' = pcs
          /\ subs' = subs
          /\ callTimeoutRef' = callTimeoutRef
          /\ callListenerRef' = callListenerRef
          /\ currentCallDocRef' = currentCallDocRef
          /\ tasks' = DelTask(tasks, t)
          /\ currentCall' = NoCall]_vars

\* initiateCall gave up for want of a microphone and nothing of it is left
C8_Witness ==
  /\ nStarted = 1 /\ isCallerRef
  /\ currentCall = NoCall
  /\ tasks = EmptyBag
  /\ pcs = <<>> /\ streams = <<>>
  /\ \A id \in RecIds : records[id] = NoRecord /\ subs[id] = NoSub

\* a step that is an invocation of toggleMute: the only handler of the user
\* that neither suspends nor is turned down
ToggleMuteStep == nOps' = nOps + 1 /\ tasks' = tasks /\ rejected' = rejected

C10_OneLogPerCall == Len(callHistory) <= nStarted

\* C11: when the only endCall under way completes for a session that is
\* connected, exactly one CallLog is appended, and it carries the seconds the
\* timer had counted when endCall was invoked (the timer stands still from
\* there on unless an unreferenced interval keeps counting).
C11_ConnectedCallLogged ==
  [][\A t \in BagToSet(tasks) :
       (/\ t.op = "endCall"
        /\ CopiesIn(t, tasks') < CopiesIn(t, tasks)
        /\ NumPending(tasks, "endCall") = 1
        /\ currentCall.status = "connected")
       => /\ Len(callHistory') = Len(callHistory) + 1
          /\ leakedIntervals = 0
               => Head(callHistory').duration = callDuration]_vars

\* C12: a CallLog appended for a session whose transport had entered the failed
\* state carries the status failed, not completed.
C12_FailedCallLoggedFailed ==
  [][(Len(callHistory') > Len(callHistory) /\ transportFailed)
       => Head(callHistory').status = "failed"]_vars

\* C13: when no handler is suspended and no microphone stream was ever obtained
\* (every acceptCall and initiateCall so far failed at the microphone and what
\* they started in response has run), the session is Idle.
C13_FailedAcceptIsIdle ==
  (tasks = EmptyBag /\ streams = <<>>) => currentCall = NoCall

\* C14: a step in which initiateCall resumes from a CallService.createCall that
\* failed (no document is created) stops the microphone stream and closes the
\* connection of that attempt (they were obtained together and carry the same
\* index), starts no subscription and no timeout, issues no store write (no
\* record changes and no endCall write is started) and ends with currentCall
\* null.
C14_CreateFailedAborts ==
  [][\A t \in BagToSet(tasks) :
       (/\ t.op = "initiateCall" /\ t.at = "create"
        /\ CopiesIn(t, tasks') < CopiesIn(t, tasks)
        /\ \A id \in RecIds : records[id].status = "absent"
                                => records'[id].status = "absent")
       => /\ ~pcs'[t.pc].open
          /\ ~streams'[t.pc].live
          /\ \A id \in RecIds : /\ subs'[id].active => subs[id].active
                                /\ subs'[id].timer = "pending"
                                     => subs[id].timer = "pending"
          /\ records' = records
          /\ NumPending(tasks', "endCall") = NumPending(tasks, "endCall")
          /\ currentCall' = NoCall]_vars

\* C15: once the endCall of the only call attempt made so far has completed
\* and every continuation has run, the session is Idle, no connection is open,
\* no microphone stream is live, no record subscription or ring timeout is
\* active, and no record is left accepted, or ringing as a call of mine.
C15_CancelledSetupLeavesNothing ==
  (nStarted = 1 /\ openSessions = 0 /\ tasks = EmptyBag)
    => /\ currentCall = NoCall /\ ~isInCall
       /\ OpenPcs = {} /\ LiveStreams = {}
       /\ \A id \in RecIds :
            /\ ~subs[id].active /\ subs[id].timer # "pending"
            /\ records[id].status # "accepted"
            /\ ~(records[id].callerId = Me /\ records[id].status = "ringing")

CandidateFields == {"callerCandidates", "receiverCandidates"}

\* C16: no step removes a candidate from callerCandidates or receiverCandidates
\* of a record: what a sequence holds before the step it holds after it.
C16_CandidatesAppendOnly ==
  [][\A id \in RecIds, f \in CandidateFields :
       \A i \in 1..Len(records[id][f]) :
         \E j \in 1..Len(records'[id][f]) :
           records'[id][f][j] = records[id][f][i]]_vars

\* C17: every candidate a connection discovers is on its way to the store: the
\* step in which connection p discovers its k-th candidate starts an
\* addIceCandidate for it, towards the sequence of p's role.
C17_DiscoveredCandidatePushed ==
  [][\A p \in DOMAIN pcs :
       (pcs[p].open /\ pcs'[p].found = pcs[p].found + 1)
       => \E t \in BagToSet(iceTasks') :
            /\ t.candidate = <<p, pcs'[p].found>>
            /\ t.field = candidateField(pcs[p].isCaller)]_vars

\* C18: once the subscription of a call of mine has delivered every snapshot
\* and no continuation is left, each candidate the receiver has appended to the
\* record is among the remote candidates of my open connection for that call.
C18_RemoteCandidatesApplied ==
  \A id \in RecIds :
    (/\ records[id].callerId = Me
     /\ subs[id].active /\ ~subs[id].pending
     /\ tasks = EmptyBag
     /\ pcs[subs[id].pc].open)
    => \A i \in 1..Len(records[id].receiverCandidates) :
         records[id].receiverCandidates[i] \in pcs[subs[id].pc].remoteCandidates

\* C19: no step changes the offer or the answer of a record once it is set.
C19_DescriptionsSetOnce ==
  [][\A id \in RecIds :
       /\ records[id].offer # NoDescription
            => records'[id].offer = records[id].offer
       /\ records[id].answer # NoDescription
            => records'[id].answer = records[id].answer]_vars

\* C20: the store write of an endCall of this client leaves a duration that is
\* already stored in the record as it is.
C20_DurationSetOnce ==
  [][\A t \in BagToSet(tasks) :
       (/\ t.op = "endCall"
        /\ CopiesIn(t, tasks') < CopiesIn(t, tasks)
        /\ records[t.id].duration # NoRecord.duration)
       => records'[t.id].duration = records[t.id].duration]_vars

\* My client changes the stored status of record id in this step: one of its
\* store writes (accept, decline, end, auto-decline) completes.
MyWriteCompletes(id) ==
  \/ bgDeclines'[id] < bgDeclines[id]
  \/ \E t \in BagToSet(tasks) :
       /\ t.op \in {"acceptCall", "declineCall", "endCall"}
       /\ CopiesIn(t, tasks') < CopiesIn(t, tasks)
       /\ (IF t.op = "endCall" THEN t.id ELSE t.inc) = id

C22_FailedTransportEndsCall ==
  \A p \in DOMAIN pcs :
    (/\ pcs[p].open /\ pcs[p].local /\ pcs[p].remote
     /\ peerConnectionRef = p /\ OpenPcs = {p})
    => LET n == handleConnectionStateChange(State, p, "failed")
           ids == {id \in RecIds : id = currentCallDocRef \/ id = pcs[p].callId}
       IN /\ ~n.pcs[p].open
          /\ localStreamRef # 0 => ~n.streams[localStreamRef].live
          /\ \A id \in RecIds : ~n.subs[id].active /\ n.subs[id].timer # "pending"
          /\ \A id \in ids :
               \/ n.records[id].status = "ended"
               \/ \E t \in BagToSet(n.tasks) : t.op = "endCall" /\ t.id = id
          /\ ids = {} => (n.currentCall = NoCall /\ ~n.isInCall)

\* C23: in every state, a report of disconnected by an open connection, or of
\* closed by any connection, is handled without effect: the session, the
\* elapsed count and its interval, the subscriptions, the records, the pending
\* continuations, the streams and the open connections are as before, and no
\* call is logged.
C23_DisconnectedClosedIgnored ==
  \A p \in DOMAIN pcs : \A state \in {"disconnected", "closed"} :
    (state = "disconnected" => pcs[p].open)
    => LET n == handleConnectionStateChange(State, p, state)
       IN /\ n.currentCall = currentCall /\ n.isInCall = isInCall
          /\ n.callDuration = callDuration /\ n.intervalRef = intervalRef
          /\ n.subs = subs /\ n.records = records /\ n.tasks = tasks
          /\ n.callListenerRef = callListenerRef
          /\ n.currentCallDocRef = currentCallDocRef
          /\ n.peerConnectionRef = peerConnectionRef
          /\ n.localStreamRef = localStreamRef /\ n.streams = streams
          /\ n.pcs[p].open = pcs[p].open
          /\ n.callHistory = callHistory

\* a connected call whose transport has reported disconnected goes on
C23_Witness ==
  \E p \in DOMAIN pcs :
    /\ pcs[p].open /\ pcs[p].conn = "disconnected" /\ peerConnectionRef = p
    /\ currentCall.status = "connected" /\ isInCall /\ intervalRef
    /\ currentCallDocRef # 0 /\ records[currentCallDocRef].status = "accepted"

C25_SurfacedOnlyWhenIdle ==
  [][\A id \in RecIds :
       /\ ((incomingCall' = id /\ incomingCall # id)
            \/ declineTimers'[id] > declineTimers[id])
          => (currentCall = NoCall /\ ~isInCall)
       /\ (\/ DeclinesInFlight(State', id) > DeclinesInFlight(State, id)
           \/ \E t \in BagToSet(tasks') :
                /\ t.op = "acceptCall" /\ t.inc = id
                /\ CopiesIn(t, tasks') > CopiesIn(t, tasks))
          => incomingCall = id \/ \E t \in BagToSet(tasks) : t.inc = id]_vars

\* a ringing call for me arrived while my own initiateCall was under way: it is
\* not surfaced, no timer runs for it and it is still ringing
C25_Witness ==
  \E id \in RecIds :
    /\ records[id].receiverId = Me /\ records[id].status = "ringing"
    /\ currentCall # NoCall /\ \E t \in BagToSet(tasks) : t.op = "initiateCall"
    /\ incomingCall = 0 /\ declineTimers[id] = 0 /\ DeclinesInFlight(State, id) = 0
    /\ ~watcherPending

\* the auto-decline timeouts that are set and have not fired
PendingDeclineTimers ==
  LET sum[i \in 0..Len(declineTimers)] ==
        IF i = 0 THEN 0 ELSE sum[i - 1] + declineTimers[i]
  IN sum[Len(declineTimers)]

\* C26: at most one auto-decline timer is pending, and while a call is surfaced
\* no step replaces it by another call or starts another timer.
C26_OneSurfaceOneTimer ==
  /\ [](PendingDeclineTimers <= 1)
  /\ [][incomingCall # 0
          => /\ incomingCall' \in {incomingCall, 0}
             /\ \A id \in RecIds : declineTimers'[id] <= declineTimers[id]]_vars

\* C27: a start() leaves the elapsed count 0, and while the timer runs, a
\* second that passes without a start() adds exactly one to the count, also
\* when start() was called while the timer was already running.
C27_OneCountPerSecond ==
  [][/\ (intervalRef' /\ (~intervalRef \/ leakedIntervals' > leakedIntervals))
          => callDuration' = 0
     /\ (/\ intervalRef /\ intervalRef'
         /\ leakedIntervals' = leakedIntervals
         /\ callDuration' # callDuration)
          => callDuration' = callDuration + 1]_vars

\* C28: while the timer is stopped, after stop() or reset(), the elapsed count
\* changes only by being reset to 0: no second that passes changes it.
C28_StoppedCountFrozen ==
  [][~intervalRef' => callDuration' \in {callDuration, 0}]_vars

\* C29: a step in which endCall is invoked and issues its status=ended write
\* leaves the session Idle, whether or not the write ever completes.
C29_EndCallResetsAtOnce ==
  [][NumPending(tasks', "endCall") > NumPending(tasks, "endCall")
       => (currentCall' = NoCall /\ ~isInCall')]_vars

\* C30: when the handler of an accepted snapshot resumes after a later ended
\* or declined snapshot of the same record has been handled, it has no effect:
\* it neither starts the timer, nor changes the session, the connections, the
\* streams, the records or the call history, nor issues a store write.
C30_SnapshotsHandledInOrder ==
  [][\A t \in BagToSet(tasks) :
       (/\ t.op = "snapshot"
        /\ CopiesIn(t, tasks') < CopiesIn(t, tasks)
        /\ records[t.id].status \in {"ended", "declined"}
        /\ ~subs[t.id].active)
       => /\ intervalRef' = intervalRef /\ callDuration' = callDuration
          /\ currentCall' = currentCall /\ isInCall' = isInCall
          /\ pcs' = pcs /\ streams' = streams /\ records' = records
          /\ callHistory' = callHistory
          /\ NumPending(tasks', "endCall") = NumPending(tasks, "endCall")]_vars

\* C31: while the record of my current outgoing call is ringing and holds no
\* answer, my status is not connected and the timer has not been started.
C31_ConnectedOnlyAfterAnswer ==
  \A id \in RecIds :
    (/\ records[id].callerId = Me /\ currentCallDocRef = id
     /\ records[id].status = "ringing" /\ records[id].answer = NoDescription)
    => /\ currentCall.status # "connected"
       /\ ~intervalRef /\ leakedIntervals = 0

\* C32: in every state in which a declined or ended snapshot of the record of
\* my current outgoing call is about to be handled while my session is not
\* Idle, handling it leaves the call's transport closed, no microphone track
\* live and the subscription cancelled, and the session Idle or the endCall
\* that resets it awaiting its store write.
C32_TerminalSnapshotEndsSession ==
  \A id \in RecIds :
    (/\ subs[id].active /\ subs[id].pending
     /\ records[id].callerId = Me /\ currentCallDocRef = id
     /\ records[id].status \in {"declined", "ended"}
     /\ (currentCall # NoCall \/ isInCall))
    => LET n == onCallSnapshot(State, id)
       IN /\ subs[id].pc # 0 => ~n.pcs[subs[id].pc].open
          /\ \A k \in DOMAIN n.streams : ~n.streams[k].live
          /\ ~n.subs[id].active
          /\ \/ n.currentCall = NoCall /\ ~n.isInCall
             \/ \E t \in BagToSet(n.tasks) : t.op = "endCall"

\* C33: a record that holds an answer is not ringing, and every step that
\* stores an answer stores the receiver's answer and leaves the status
\* accepted.
C33_AnswerOnlyWithAccepted ==
  /\ [](\A id \in RecIds :
          records[id].answer # NoDescription
          => records[id].status \in {"accepted", "declined", "ended"})
  /\ [][\A id \in RecIds :
          records'[id].answer # records[id].answer
          => /\ records'[id].status = "accepted"
             /\ records'[id].answer.by = records[id].receiverId]_vars

\* my accept of the peer's call has stored my answer with status accepted
C33_Witness ==
  \E id \in RecIds :
    /\ records[id].receiverId = Me /\ records[id].status = "accepted"
    /\ records[id].answer # NoDescription /\ records[id].answer.by = Me
    /\ currentCallDocRef = id

\* the CallLogs endCall has appended and the history still holds (endCall
\* alone stores status completed)
AppendedLogs(h) == {i \in 1..Len(h) : h[i].status = "completed"}

\* C34: every step leaves each CallLog that endCall has appended in the
\* history, unchanged.
C34_AppendedLogStays ==
  [][/\ Cardinality(AppendedLogs(callHistory')) >=
          Cardinality(AppendedLogs(callHistory))
     /\ \A i \in AppendedLogs(callHistory) :
          \E k \in AppendedLogs(callHistory') :
            callHistory'[k] = callHistory[i]]_vars

\* C35: isInCall is true only while a session exists.
C35_InCallOnlyWithSession == isInCall => currentCall # NoCall

\* C36: whenever a session and a referenced live microphone stream both
\* exist, isMuted is true exactly when the stream's audio track is disabled.
C36_MutedMatchesTracks ==
  (currentCall # NoCall /\ localStreamRef # 0 /\ streams[localStreamRef].live)
  => (currentCall.isMuted <=> ~streams[localStreamRef].enabled)

\* C37: whenever the session is Idle and no continuation of a call setup, of a
\* snapshot handler or of an endCall is pending, no interval of the timer runs
\* and the elapsed count is 0.
C37_IdleTimerAtRest ==
  (currentCall = NoCall /\ ~isInCall /\ tasks = EmptyBag)
  => (~intervalRef /\ leakedIntervals = 0 /\ callDuration = 0)

\* C38: once the caller has ended a call that I accepted and that is my
\* current call, my session eventually is Idle.
C38_CallerEndReachesReceiver ==
  \A id \in 1..MaxRecords :
    (/\ records[id].receiverId = Me /\ records[id].status = "ended"
     /\ records[id].answer.by = Me /\ currentCallDocRef = id)
    ~> (currentCall = NoCall /\ ~isInCall)

\* C39: a surfaced call leaves the surface; when a timeout started for a call
\* fires, that call is not on the surface afterwards, and if another call was
\* on the surface it stays there and no decline is issued for any call.
C39_SurfaceClearedByItsTimer ==
  /\ \A id \in 1..MaxOverlapRecords : (incomingCall = id) ~> (incomingCall # id)
  /\ [][\A id \in 1..MaxOverlapRecords :
          declineTimers'[id] < declineTimers[id]
          => /\ incomingCall' # id
             /\ incomingCall # id
                  => incomingCall' = incomingCall /\ bgDeclines' = bgDeclines]_vars

\* the timeout of call 1 fired while call 1 was surfaced: it cleared the
\* surface and issued the decline, which is still in flight, and the caller has
\* ended the call; call 2 is on the surface with its own timeout pending, and
\* no timeout of call 1 is left
C39_Witness ==
  /\ records[1].receiverId = Me /\ records[1].status = "ended"
  /\ bgDeclines[1] > 0 /\ declineTimers[1] = 0
  /\ incomingCall = 2 /\ declineTimers[2] > 0 /\ bgDeclines[2] = 0

\* ---- specification ----------------------------------------------------------
Next ==
  \/ \E peer \in Peers : InitiateCall(peer)
  \/ \E t \in BagToSet(tasks) : InitiateCallMic(t)
  \/ \E t \in BagToSet(tasks) : InitiateCallOffer(t)
  \/ \E t \in BagToSet(tasks) : InitiateCallCreate(t)
  \/ \E id \in RecIds : OnCallSnapshot(id)
  \/ \E t \in BagToSet(tasks) : OnCallSnapshotAnswer(t)
  \/ \E id \in RecIds : OnRingTimeout(id)
  \/ AcceptCall
  \/ \E t \in BagToSet(tasks) : AcceptCallMic(t)
  \/ \E t \in BagToSet(tasks) : AcceptCallAnswer(t)
  \/ \E t \in BagToSet(tasks) : AcceptCallWrite(t)
  \/ DeclineCall
  \/ \E t \in BagToSet(tasks) : DeclineCallWrite(t)
  \/ EndCall
  \/ \E t \in BagToSet(tasks) : EndCallWrite(t)
  \/ ToggleMute
  \/ OnIncomingCalls
  \/ \E id \in RecIds : OnAutoDecline(id)
  \/ \E id \in RecIds : AutoDeclineWrite(id)
  \/ \E p \in DOMAIN pcs : OnTrack(p)
  \/ \E p \in DOMAIN pcs : OnConnected(p)
  \/ \E p \in DOMAIN pcs : OnDisconnected(p)
  \/ \E p \in DOMAIN pcs : OnFailed(p)
  \/ Tick
  \/ \E peer \in Peers : RemoteCreateCall(peer)
  \/ \E id \in RecIds : RemoteAccept(id)
  \/ \E id \in RecIds : RemoteDecline(id)
  \/ \E id \in RecIds : RemoteAddIceCandidate(id)
  \/ \E id \in RecIds, d \in 0..MaxDur : RemoteEnd(id, d)

\* The candidate writes of the client change nothing but the candidate fields
\* of a record, which no handler of the client reads: Spec leaves them out.
Spec == Init /\ [][Next]_vars

\* Call setup in both roles, up to the exchange of the descriptions, together
\* with the candidates each connection discovers meanwhile and the writes that
\* carry them to the store.
NextIce ==
  \/ \E peer \in Peers : InitiateCall(peer)
  \/ \E t \in BagToSet(tasks) : InitiateCallMic(t)
  \/ \E t \in BagToSet(tasks) : InitiateCallOffer(t)
  \/ \E t \in BagToSet(tasks) : InitiateCallCreate(t)
  \/ \E id \in RecIds : OnCallSnapshot(id)
  \/ \E t \in BagToSet(tasks) : OnCallSnapshotAnswer(t)
  \/ AcceptCall
  \/ \E t \in BagToSet(tasks) : AcceptCallMic(t)
  \/ \E t \in BagToSet(tasks) : AcceptCallAnswer(t)
  \/ \E t \in BagToSet(tasks) : AcceptCallWrite(t)
  \/ \E t \in BagToSet(tasks) : DeclineCallWrite(t)
  \/ \E t \in BagToSet(tasks) : EndCallWrite(t)
  \/ OnIncomingCalls
  \/ \E p \in DOMAIN pcs : OnIceCandidate(p)
  \/ \E t \in BagToSet(iceTasks) : AddIceCandidateRead(t)
  \/ \E t \in BagToSet(iceTasks) : AddIceCandidateWrite(t)
  \/ \E peer \in Peers : RemoteCreateCall(peer)
  \/ \E id \in RecIds : RemoteAccept(id)
  \/ \E id \in RecIds : RemoteAddIceCandidate(id)

SpecIce == Init /\ [][NextIce]_vars

\* Two calls side by side: a collection with room for a second record, an
\* outgoing and an incoming call (or two incoming ones) set up, surfaced,
\* accepted, declined and timed out while the other is under way.
NextOverlap ==
  \/ \E peer \in Peers : InitiateCall(peer)
  \/ \E t \in BagToSet(tasks) : InitiateCallMic(t)
  \/ \E t \in BagToSet(tasks) : InitiateCallOffer(t)
  \/ \E t \in BagToSet(tasks) : InitiateCallCreate(t)
  \/ AcceptCall
  \/ \E t \in BagToSet(tasks) : AcceptCallMic(t)
  \/ \E t \in BagToSet(tasks) : AcceptCallAnswer(t)
  \/ \E t \in BagToSet(tasks) : AcceptCallWrite(t)
  \/ DeclineCall
  \/ \E t \in BagToSet(tasks) : DeclineCallWrite(t)
  \/ \E t \in BagToSet(tasks) : EndCallWrite(t)
  \/ OnIncomingCalls
  \/ \E id \in RecIds : OnAutoDecline(id)
  \/ \E id \in RecIds : AutoDeclineWrite(id)
  \/ \E p \in DOMAIN pcs : OnTrack(p)
  \/ \E p \in DOMAIN pcs : OnConnected(p)
  \/ \E id \in RecIds : OnCallSnapshot(id)
  \/ \E t \in BagToSet(tasks) : OnCallSnapshotAnswer(t)
  \/ \E peer \in Peers : RemoteCreateCall(peer)
  \/ \E id \in RecIds : RemoteAccept(id)
  \/ \E id \in RecIds : RemoteDecline(id)

SpecOverlap == InitOverlap /\ [][NextOverlap]_vars

\* A call in either role, from its setup to the endCall that logs it,
\* together with the listener that loads the call history.
NextHistory ==
  \/ \E peer \in Peers : InitiateCall(peer)
  \/ \E t \in BagToSet(tasks) : InitiateCallMic(t)
  \/ \E t \in BagToSet(tasks) : InitiateCallOffer(t)
  \/ \E t \in BagToSet(tasks) : InitiateCallCreate(t)
  \/ \E id \in RecIds : OnCallSnapshot(id)
  \/ \E t \in BagToSet(tasks) : OnCallSnapshotAnswer(t)
  \/ AcceptCall
  \/ \E t \in BagToSet(tasks) : AcceptCallMic(t)
  \/ \E t \in BagToSet(tasks) : AcceptCallAnswer(t)
  \/ \E t \in BagToSet(tasks) : AcceptCallWrite(t)
  \/ \E t \in BagToSet(tasks) : DeclineCallWrite(t)
  \/ EndCall
  \/ \E t \in BagToSet(tasks) : EndCallWrite(t)
  \/ OnIncomingCalls
  \/ \E p \in DOMAIN pcs : OnTrack(p)
  \/ OnCallHistory
  \/ \E peer \in Peers : RemoteCreateCall(peer)
  \/ \E id \in RecIds : RemoteAccept(id)

SpecHistory == Init /\ [][NextHistory]_vars

\* Calls in either role with the mute button pressed any number of times.
NextMute ==
  \/ \E peer \in Peers : InitiateCall(peer)
  \/ \E t \in BagToSet(tasks) : InitiateCallMic(t)
  \/ \E t \in BagToSet(tasks) : InitiateCallOffer(t)
  \/ \E t \in BagToSet(tasks) : InitiateCallCreate(t)
  \/ \E id \in RecIds : OnCallSnapshot(id)
  \/ \E t \in BagToSet(tasks) : OnCallSnapshotAnswer(t)
  \/ AcceptCall
  \/ \E t \in BagToSet(tasks) : AcceptCallMic(t)
  \/ \E t \in BagToSet(tasks) : AcceptCallAnswer(t)
  \/ \E t \in BagToSet(tasks) : AcceptCallWrite(t)
  \/ \E t \in BagToSet(tasks) : DeclineCallWrite(t)
  \/ EndCall
  \/ \E t \in BagToSet(tasks) : EndCallWrite(t)
  \/ PressMute
  \/ OnIncomingCalls
  \/ \E p \in DOMAIN pcs : OnTrack(p)
  \/ \E peer \in Peers : RemoteCreateCall(peer)
  \/ \E id \in RecIds : RemoteAccept(id)

SpecMute == Init /\ [][NextMute]_vars

\* The receiver's side of a call with neither a user who hangs up nor a
\* transport that fails: the call arrives, is surfaced, accepted and connected,
\* and the caller ends it.  Whatever the client does on its own (callbacks,
\* continuations once their await has settled, timeouts) it does eventually.
NextReceiver ==
  \/ AcceptCall
  \/ \E t \in BagToSet(tasks) : AcceptCallMic(t)
  \/ \E t \in BagToSet(tasks) : AcceptCallAnswer(t)
  \/ \E t \in BagToSet(tasks) : AcceptCallWrite(t)
  \/ \E t \in BagToSet(tasks) : DeclineCallWrite(t)
  \/ OnIncomingCalls
  \/ \E id \in RecIds : OnAutoDecline(id)
  \/ \E id \in RecIds : AutoDeclineWrite(id)
  \/ \E p \in DOMAIN pcs : OnTrack(p)
  \/ \E p \in DOMAIN pcs : OnConnected(p)
  \/ \E p \in DOMAIN pcs : OnDisconnected(p)
  \/ Tick
  \/ \E peer \in Peers : RemoteCreateCall(peer)
  \/ \E id \in RecIds, d \in 0..MaxDur : RemoteEnd(id, d)

FairReceiver ==
  /\ WF_vars(\E t \in BagToSet(tasks) : AcceptCallMic(t))
  /\ WF_vars(\E t \in BagToSet(tasks) : AcceptCallAnswer(t))
  /\ WF_vars(\E t \in BagToSet(tasks) : AcceptCallWrite(t))
  /\ WF_vars(\E t \in BagToSet(tasks) : DeclineCallWrite(t))
  /\ WF_vars(OnIncomingCalls)
  /\ WF_vars(\E id \in RecIds : OnAutoDecline(id))
  /\ WF_vars(\E id \in RecIds : AutoDeclineWrite(id))
  /\ WF_vars(\E p \in DOMAIN pcs : OnTrack(p))
  /\ WF_vars(\E p \in DOMAIN pcs : OnConnected(p))
  /\ WF_vars(Tick)

SpecReceiver == Init /\ [][NextReceiver]_vars /\ FairReceiver

\* The surface of incoming calls with two callers: calls arrive and are
\* cancelled, are surfaced, and are declined by the user or by their timeout.
\* Callbacks, timeouts and settled writes happen eventually.
NextSurface ==
  \/ DeclineCall
  \/ \E t \in BagToSet(tasks) : DeclineCallWrite(t)
  \/ OnIncomingCalls
  \/ \E id \in RecIds : OnAutoDecline(id)
  \/ \E id \in RecIds : AutoDeclineWrite(id)
  \/ \E id \in RecIds : AutoDeclineFails(id)
  \/ \E peer \in Peers : RemoteCreateCall(peer)
  \/ \E id \in RecIds, d \in 0..MaxDur : RemoteEnd(id, d)

FairSurface ==
  /\ WF_vars(\E t \in BagToSet(tasks) : DeclineCallWrite(t))
  /\ WF_vars(OnIncomingCalls)
  /\ \A id \in 1..MaxOverlapRecords :
       /\ WF_vars(OnAutoDecline(id))
       /\ WF_vars(AutoDeclineWrite(id) \/ AutoDeclineFails(id))

SpecSurface == InitOverlap /\ [][NextSurface]_vars /\ FairSurface

\* The Call Timer on its own, under every sequence of its operations.
NextTimer ==
  \/ TimerStart
  \/ TimerStop
  \/ TimerReset
  \/ Second

SpecTimer == Init /\ [][NextTimer]_vars
====
